---- MODULE Spec2Model ----
(***************************************************************************)
(* Model of src/doc_code/streamlitapp.py: one "Analyze SQL Procedure"      *)
(* request, from the button click through analyze_stored_procedure (secret *)
(* lookup, prompt, generate_response with its retry loop, the clean-up of  *)
(* the reply and the JSON repair stages) to the rendering of the result.   *)
(*                                                                         *)
(* A text is a sequence of symbols.  A symbol is one character, except     *)
(* that each JSON key name of the prompt's schema ("procedure_name", ...)  *)
(* is one symbol standing for that run of letters.  Positions, lines and   *)
(* columns are counted in symbols.                                         *)
(***************************************************************************)
EXTENDS Integers, Sequences, FiniteSets, TLC

DQ == "\""
BS == "\\"
NL == "\n"
SP == " "
LB == "{"
RB == "}"
LK == "["
RK == "]"
CO == ":"
CM == ","
\* the backtick character (the lexer of TLA+ rejects it inside a string)
BT == "bt"

\* a run of "[" longer than the recursion limit of the interpreter
DEEP == "deep"

\* str.strip() and the WHITESPACE of the JSON scanner, restricted to the alphabet
IsWs(c) == c \in {SP, NL}

(***************************************************************************)
(* Python values: what json.loads returns, and None.                       *)
(***************************************************************************)
None == [k |-> "null", s |-> <<>>, keys |-> <<>>, items |-> <<>>]
JStr(s) == [k |-> "str", s |-> s, keys |-> <<>>, items |-> <<>>]
JArr(items) == [k |-> "arr", s |-> <<>>, keys |-> <<>>, items |-> items]
JObj(keys, items) == [k |-> "obj", s |-> <<>>, keys |-> keys, items |-> items]

\* Python truth value of a json.loads result (`if analysis:`)
Truthy(v) ==
    CASE v.k = "null" -> FALSE
      [] v.k = "str" -> Len(v.s) > 0
      [] v.k = "arr" -> Len(v.items) > 0
      [] OTHER -> Len(v.keys) > 0

\* `key in d` and d[key] for a dict; keys are unique
HasKey(v, key) == v.k = "obj" /\ \E i \in 1..Len(v.keys) : v.keys[i] = key
Get(v, key) == v.items[CHOOSE i \in 1..Len(v.keys) : v.keys[i] = key]

\* dict(pairs): a repeated key keeps its first position and its last value
DictSet(d, key, val) ==
    IF \E i \in 1..Len(d.keys) : d.keys[i] = key
    THEN LET i == CHOOSE j \in 1..Len(d.keys) : d.keys[j] = key
         IN JObj(d.keys, [d.items EXCEPT ![i] = val])
    ELSE JObj(Append(d.keys, key), Append(d.items, val))

(***************************************************************************)
(* json.loads.  A result is [ok, v, end, msg, pos]: on success v is the    *)
(* value and end the index after it; on failure msg and pos are those of   *)
(* the JSONDecodeError (pos is 1-based here, Python's pos + 1).  The msg    *)
(* "RecursionError" is the one failure that is no JSONDecodeError: the     *)
(* scanner recurses once per nested "[" and overflows on DEEP.             *)
(***************************************************************************)
Ok(v, end) == [ok |-> TRUE, v |-> v, end |-> end, msg |-> "", pos |-> 0]
Err(msg, pos) == [ok |-> FALSE, v |-> None, end |-> 0, msg |-> msg, pos |-> pos]

At(s, i) == IF i >= 1 /\ i <= Len(s) THEN s[i] ELSE "EOF"

RECURSIVE SkipWs(_, _)
SkipWs(s, i) == IF i <= Len(s) /\ IsWs(s[i]) THEN SkipWs(s, i + 1) ELSE i

\* scanstring: i is the index after the opening quote, begin the quote
RECURSIVE ScanString(_, _, _, _)
ScanString(s, i, begin, acc) ==
    IF i > Len(s) THEN Err("Unterminated string starting at", begin)
    ELSE IF s[i] = DQ THEN Ok(JStr(acc), i + 1)
    ELSE IF s[i] = NL THEN Err("Invalid control character at", i)
    ELSE IF s[i] # BS THEN ScanString(s, i + 1, begin, Append(acc, s[i]))
    ELSE IF i + 1 > Len(s) THEN Err("Unterminated string starting at", begin)
    ELSE IF s[i + 1] = "u" THEN Err("Invalid \\uXXXX escape", i + 1)
    ELSE IF s[i + 1] \in {DQ, BS} THEN ScanString(s, i + 2, begin, Append(acc, s[i + 1]))
    ELSE IF s[i + 1] = "n" THEN ScanString(s, i + 2, begin, Append(acc, NL))
    ELSE Err("Invalid \\escape", i)

RECURSIVE ScanOnce(_, _)
RECURSIVE ObjectLoop(_, _, _)
RECURSIVE ArrayLoop(_, _, _)

\* JSONObject: i is the index after "{"
JSONObject(s, i) ==
    LET j == IF IsWs(At(s, i)) THEN SkipWs(s, i) ELSE i
    IN IF At(s, j) = DQ THEN ObjectLoop(s, j + 1, JObj(<<>>, <<>>))
       ELSE IF At(s, j) = RB THEN Ok(JObj(<<>>, <<>>), j + 1)
       ELSE Err("Expecting property name enclosed in double quotes", j)

\* one turn of JSONObject's loop: i is the index after the key's opening quote
ObjectLoop(s, i, d) ==
    LET key == ScanString(s, i, i - 1, <<>>)
    IN IF ~key.ok THEN key
       ELSE LET c == SkipWs(s, key.end)
            IN IF At(s, c) # CO THEN Err("Expecting ':' delimiter", c)
               ELSE LET val == ScanOnce(s, SkipWs(s, c + 1))
                    IN IF ~val.ok THEN val
                       ELSE LET d2 == DictSet(d, key.v.s, val.v)
                                n == SkipWs(s, val.end)
                            IN IF At(s, n) = RB THEN Ok(d2, n + 1)
                               ELSE IF At(s, n) # CM THEN Err("Expecting ',' delimiter", n)
                               ELSE LET q == SkipWs(s, n + 1)
                                    IN IF At(s, q) # DQ
                                       THEN Err("Expecting property name enclosed in double quotes", q)
                                       ELSE ObjectLoop(s, q + 1, d2)

\* JSONArray: i is the index after "["
JSONArray(s, i) ==
    LET j == SkipWs(s, i)
    IN IF At(s, j) = RK THEN Ok(JArr(<<>>), j + 1) ELSE ArrayLoop(s, j, <<>>)

\* one turn of JSONArray's loop: i is the index of the next value
ArrayLoop(s, i, acc) ==
    LET val == ScanOnce(s, i)
    IN IF ~val.ok THEN val
       ELSE LET n == SkipWs(s, val.end)
            IN IF At(s, n) = RK THEN Ok(JArr(Append(acc, val.v)), n + 1)
               ELSE IF At(s, n) # CM THEN Err("Expecting ',' delimiter", n)
               ELSE ArrayLoop(s, SkipWs(s, n + 1), Append(acc, val.v))

\* scan_once; StopIteration becomes "Expecting value" in the callers
ScanOnce(s, i) ==
    CASE At(s, i) = DQ -> ScanString(s, i + 1, i, <<>>)
      [] At(s, i) = LB -> JSONObject(s, i + 1)
      [] At(s, i) = LK -> JSONArray(s, i + 1)
      [] At(s, i) = "n" /\ At(s, i + 1) = "u" /\ At(s, i + 2) = "l" /\ At(s, i + 3) = "l"
           -> Ok(None, i + 4)
      [] At(s, i) = DEEP -> Err("RecursionError", i)
      [] OTHER -> Err("Expecting value", i)

IsDecodeError(r) == ~r.ok /\ r.msg # "RecursionError"

\* json.loads that takes white space after the value for extra data
Loads_NoTrailingSpace(s) ==
    LET r == ScanOnce(s, SkipWs(s, 1))
    IN IF ~r.ok THEN r
       ELSE IF r.end <= Len(s) THEN Err("Extra data", r.end) ELSE r

\* json.loads(s): JSONDecoder.decode
Loads(s) ==
    LET r == ScanOnce(s, SkipWs(s, 1))
    IN IF ~r.ok THEN r
       ELSE LET e == SkipWs(s, r.end)
            IN IF e <= Len(s) THEN Err("Extra data", e) ELSE r

\* s[:n].count(c)
CountIn(s, n, c) == Cardinality({i \in 1..n : s[i] = c})

\* JSONDecodeError.lineno: doc.count('\n', 0, pos) + 1
LineNo(s, pos) == CountIn(s, pos - 1, NL) + 1

(***************************************************************************)
(* The clean-up of the reply (lines 345-350).                              *)
(***************************************************************************)
RECURSIVE LStrip(_)
LStrip(s) == IF Len(s) > 0 /\ IsWs(s[1]) THEN LStrip(Tail(s)) ELSE s

RECURSIVE RStrip(_)
RStrip(s) == IF Len(s) > 0 /\ IsWs(s[Len(s)]) THEN RStrip(SubSeq(s, 1, Len(s) - 1)) ELSE s

\* str.strip()
Strip(s) == RStrip(LStrip(s))

StartsWith(s, p) == Len(s) >= Len(p) /\ SubSeq(s, 1, Len(p)) = p
EndsWith(s, p) == Len(s) >= Len(p) /\ SubSeq(s, Len(s) - Len(p) + 1, Len(s)) = p

FenceOpen == <<BT, BT, BT, "j", "s", "o", "n">>
FenceClose == <<BT, BT, BT>>

\* the markers are removed only when both are there
CleanResponse_OnlyWhenWrapped(analysis_result) ==
    LET a == Strip(analysis_result)
    IN IF StartsWith(a, FenceOpen) /\ EndsWith(a, FenceClose) /\ Len(a) >= 10
       THEN SubSeq(a, 8, Len(a) - 3) ELSE a

\* lines 346-350
CleanResponse(analysis_result) ==
    LET a == Strip(analysis_result)
        b == IF StartsWith(a, FenceOpen) THEN SubSeq(a, 8, Len(a)) ELSE a
    IN IF EndsWith(b, FenceClose) THEN SubSeq(b, 1, Len(b) - 3) ELSE b

(***************************************************************************)
(* The repair attempts (lines 369-444).                                    *)
(***************************************************************************)
\* index of the n-th occurrence of c in s at or after i, Len(s) + 1 if none
NthIndex(s, c, n, i) ==
    LET occ == {j \in i..Len(s) : s[j] = c}
    IN IF Cardinality(occ) < n THEN Len(s) + 1
       ELSE CHOOSE j \in occ : Cardinality({h \in occ : h <= j}) = n

\* cleaned_response.split('\n')[line - 1], as the indexes of its first symbol
\* and of the symbol after its last one
LineStart(s, line) == IF line = 1 THEN 1 ELSE NthIndex(s, NL, line - 1, 1) + 1
LineEnd(s, line) == NthIndex(s, NL, line, 1)
NumLines(s) == CountIn(s, Len(s), NL) + 1

\* lines 374-385: the line the error names gets a closing quote at its end
\* when it holds an odd number of quotes; the lines are joined again
RepairUnterminated(s, error_line) ==
    IF error_line > NumLines(s) THEN s
    ELSE LET b == LineStart(s, error_line)
             e == LineEnd(s, error_line)
             quotes == CountIn(SubSeq(s, b, e - 1), e - b, DQ)
         IN IF quotes % 2 = 1
            THEN SubSeq(s, 1, e - 1) \o <<DQ>> \o SubSeq(s, e, Len(s))
            ELSE s

\* re.compile(r'\{.*\}', re.DOTALL).search: from the first "{" to the last "}"
\* index of the last occurrence of c in s at or before i, 0 if none
LastIndex(s, c, i) ==
    LET occ == {j \in 1..i : s[j] = c}
    IN IF occ = {} THEN 0 ELSE CHOOSE j \in occ : \A h \in occ : h <= j

RegexMatches(s) == NthIndex(s, LB, 1, 1) < LastIndex(s, RB, Len(s))
RegexGroup(s) == SubSeq(s, NthIndex(s, LB, 1, 1), LastIndex(s, RB, Len(s)))

\* re.search(r'"<key>"\s*:\s*"([^"]+)"', s): does the pattern match at index i,
\* and group(1) of the leftmost match
FieldMatchAt(s, key, i) ==
    /\ At(s, i) = DQ /\ At(s, i + 1) = key /\ At(s, i + 2) = DQ
    /\ LET c == SkipWs(s, i + 3)
       IN /\ At(s, c) = CO
          /\ LET q == SkipWs(s, c + 1)
             IN /\ At(s, q) = DQ
                /\ NthIndex(s, DQ, 1, q + 1) <= Len(s)
                /\ NthIndex(s, DQ, 1, q + 1) > q + 1

FieldMatches(s, key) == \E i \in 1..Len(s) : FieldMatchAt(s, key, i)

FieldGroup(s, key) ==
    LET i == CHOOSE j \in 1..Len(s) :
                 FieldMatchAt(s, key, j) /\ \A h \in 1..(j - 1) : ~FieldMatchAt(s, key, h)
        q == SkipWs(s, SkipWs(s, i + 3) + 1)
    IN SubSeq(s, q + 1, NthIndex(s, DQ, 1, q + 1) - 1)

\* lines 419-437
MinimalJson(s) ==
    JObj(<< <<"procedure_name">>, <<"complexity">>, <<"scope">>, <<"optimizations">>,
            <<"summary">> >>,
         << JStr(IF FieldMatches(s, "procedure_name")
                 THEN FieldGroup(s, "procedure_name") ELSE <<"Unknown">>),
            JStr(IF FieldMatches(s, "complexity")
                 THEN FieldGroup(s, "complexity") ELSE <<"Medium">>),
            JStr(IF FieldMatches(s, "scope")
                 THEN FieldGroup(s, "scope")
                 ELSE <<"scope could not be determined due to parsing issues">>),
            JArr(<< JObj(<< <<"type">>, <<"line_number">>, <<"existing_logic">>,
                            <<"optimized_logic">>, <<"explanation">> >>,
                         << JStr(<<"General Optimization">>), JStr(<<"N/A">>),
                            JStr(<<"could not be parsed">>),
                            JStr(<<"See recommendations">>),
                            JStr(<<"could not be fully parsed">>) >>) >>),
            JObj(<< <<"original_performance_issues">>, <<"optimization_impact">>,
                    <<"implementation_difficulty">> >>,
                 << JStr(<<"could not be fully parsed">>), JStr(<<"See debug output">>),
                    JStr(<<"N/A">>) >>) >>)

(***************************************************************************)
(* The replies of the model that the request is run on.  A reply is built  *)
(* from a record of the schema of the prompt (lines 239-257) with up to    *)
(* MaxSteps optimization steps, serialised as JSON, or is one of a list of *)
(* texts that are not such a record.                                       *)
(***************************************************************************)
MaxSteps == 2

TopFields == <<"procedure_name", "complexity", "scope", "optimizations", "summary">>
StepFields == <<"type", "line_number", "existing_logic", "optimized_logic", "explanation">>
SummaryFields == <<"original_performance_issues", "optimization_impact",
                   "implementation_difficulty">>

\* a quote that the reply leaves unescaped inside a string value
RAWQ == "rawq"

NoMark == [id |-> <<"none", 0>>, j |-> 0]
NoDrop == <<"none", 0>>

InsertAt(s, j, c) == SubSeq(s, 1, j) \o <<c>> \o SubSeq(s, j + 1, Len(s))

\* the string value of field id; step i has fields <<name, i>>, the others <<name, 0>>
BaseVal(id) ==
    CASE id[1] = "procedure_name" -> <<"x">>
      [] id[1] = "complexity" -> <<"y">>
      [] id[1] = "scope" -> <<"x", DQ, "y">>
      [] id[1] = "type" -> IF id[2] % 2 = 1 THEN <<"x">> ELSE <<"y">>
      [] id[1] = "line_number" -> IF id[2] % 2 = 1 THEN <<"y">> ELSE <<"x", "x">>
      [] id[1] = "optimized_logic" -> <<BS, "x">>
      [] id[1] = "implementation_difficulty" -> <<"x", CM>>
      [] OTHER -> <<"y", "x">>

Val(id, mark) ==
    JStr(IF mark.id = id THEN InsertAt(BaseVal(id), mark.j, RAWQ) ELSE BaseVal(id))

Keep(fields, i, drop) == SelectSeq(fields, LAMBDA f : <<f, i>> # drop)

StepRec(i, mark, drop) ==
    LET fs == Keep(StepFields, i, drop)
    IN JObj([k \in 1..Len(fs) |-> <<fs[k]>>], [k \in 1..Len(fs) |-> Val(<<fs[k], i>>, mark)])

Rec(n, mark, drop) ==
    LET fs == Keep(TopFields, 0, drop)
        sm == Keep(SummaryFields, 0, drop)
        item(f) ==
            CASE f = "optimizations" -> JArr([i \in 1..n |-> StepRec(i, mark, drop)])
              [] f = "summary" -> JObj([k \in 1..Len(sm) |-> <<sm[k]>>],
                                       [k \in 1..Len(sm) |-> Val(<<sm[k], 0>>, mark)])
              [] OTHER -> Val(<<f, 0>>, mark)
    IN JObj([k \in 1..Len(fs) |-> <<fs[k]>>], [k \in 1..Len(fs) |-> item(fs[k])])

\* the record a reply stands for: the unescaped quote is a quote of the value
RECURSIVE Intended(_)
Intended(v) ==
    CASE v.k = "str" -> JStr([i \in 1..Len(v.s) |-> IF v.s[i] = RAWQ THEN DQ ELSE v.s[i]])
      [] v.k = "null" -> v
      [] OTHER -> [v EXCEPT !.items = [i \in 1..Len(v.items) |-> Intended(v.items[i])]]

\* the JSON text of a value; nl puts each member on a line of its own
RECURSIVE Escape(_)
Escape(s) ==
    IF s = <<>> THEN <<>>
    ELSE (CASE s[1] = DQ -> <<BS, DQ>>
            [] s[1] = BS -> <<BS, BS>>
            [] s[1] = NL -> <<BS, "n">>
            [] s[1] = RAWQ -> <<DQ>>
            [] OTHER -> <<s[1]>>) \o Escape(Tail(s))

RECURSIVE Dump(_, _)
RECURSIVE DumpMembers(_, _, _)
DumpMembers(v, i, nl) ==
    IF i > Len(v.items) THEN <<>>
    ELSE (IF i > 1 THEN <<CM>> \o (IF nl THEN <<NL>> ELSE <<>>) ELSE <<>>)
         \o (IF v.k = "obj" THEN <<DQ>> \o Escape(v.keys[i]) \o <<DQ, CO>> ELSE <<>>)
         \o Dump(v.items[i], nl) \o DumpMembers(v, i + 1, nl)

Dump(v, nl) ==
    CASE v.k = "null" -> <<"n", "u", "l", "l">>
      [] v.k = "str" -> <<DQ>> \o Escape(v.s) \o <<DQ>>
      [] v.k = "arr" -> <<LK>> \o DumpMembers(v, 1, nl) \o <<RK>>
      [] OTHER -> <<LB>> \o DumpMembers(v, 1, nl) \o <<RB>>

Wrappers == {"none", "space", "fence", "fence_open", "fence_plain", "prose", "braces"}

Wrap(w, t) ==
    CASE w = "space" -> <<SP, NL>> \o t \o <<NL, SP>>
      [] w = "fence" -> FenceOpen \o <<NL>> \o t \o <<NL>> \o FenceClose
      [] w = "fence_open" -> FenceOpen \o <<NL>> \o t
      [] w = "fence_plain" -> FenceClose \o <<NL>> \o t \o <<NL>> \o FenceClose
      [] w = "prose" -> <<"x", SP>> \o t \o <<SP, "y">>
      [] w = "braces" -> <<LB, "x", RB, SP>> \o t \o <<SP, LB, "y", RB>>
      [] OTHER -> t

Reply(kind, rec, nl, w) ==
    [text |-> Wrap(w, Dump(rec, nl)), kind |-> kind, rec |-> Intended(rec), wrapper |-> w]

\* replies that are a record of the schema, bare or wrapped
RecordReplies ==
    {Reply("record", Rec(n, NoMark, NoDrop), nl, w) :
        n \in 0..MaxSteps, nl \in BOOLEAN, w \in Wrappers}

\* replies that are such a record but for one quote left unescaped in one
\* string value
Marks ==
    {m \in [id : ({<<f, 0>> : f \in {"procedure_name", "complexity", "scope",
                                      "original_performance_issues", "optimization_impact",
                                      "implementation_difficulty"}}
                  \cup {<<StepFields[k], 1>> : k \in 1..5}),
            j : 0..3] : m.j <= Len(BaseVal(m.id))}

QuoteReplies ==
    UNION {{Reply("quote", Rec(n, m, NoDrop), nl, "none") :
               nl \in BOOLEAN, m \in {x \in Marks : x.id[2] <= n}} : n \in 0..1}

\* replies that are such a record but for one missing field
DropReplies ==
    {Reply("drop", Rec(1, NoMark, d), FALSE, "none") :
        d \in {<<TopFields[k], 0>> : k \in 1..5} \cup {<<StepFields[k], 1>> : k \in 1..5}
              \cup {<<SummaryFields[k], 0>> : k \in 1..3}}

\* replies that are such a record with a line break inside the existing_logic
\* of the first step (a code snippet of two lines), escaped as JSON requires
WithLines(rec) == [rec EXCEPT !.items[4].items[1].items[3] = JStr(<<"y", NL, "x">>)]

LinesReplies ==
    {Reply("lines", WithLines(Rec(n, NoMark, NoDrop)), nl, "none") :
        n \in 1..MaxSteps, nl \in BOOLEAN}

\* replies that are no record at all
OtherTexts ==
    { <<>>, <<SP>>, <<NL, NL>>,
      <<"n", "u", "l", "l">>, <<LB, RB>>, <<LK, RK>>, <<DQ, DQ>>,
      <<DQ, "x", DQ>>, <<LK, DQ, "x", DQ, RK>>, <<LB, DQ, "x", DQ, CO, DQ, "y", DQ, RB>>,
      <<"x">>, <<"x", SP, "y">>, <<"x", NL, "y">>,
      <<DQ, "x">>, <<"y", NL, DQ, "x">>, <<DQ, "x", BS, DQ>>, <<DQ, "x", BS>>,
      <<LB, "x", RB>>, <<LB>>, <<RB>>, <<RB, "x", LB>>, <<LK, "x">>,
      <<LB, DQ, "x", DQ, CO, DQ, "y">>,
      <<LB, DQ, "x", DQ, CO, NL, DQ, "y", DQ, CM, DQ, RB>>,
      <<"x", SP, DQ, "procedure_name", DQ, CO, SP, DQ, "y", DQ, SP, DQ, "scope", DQ, CO, DQ, DQ>>,
      <<DQ, "complexity", DQ, NL, CO, DQ, "y", NL, "x", DQ>>,
      <<DEEP>>, <<"x", SP, LB, DQ, "x", DQ, CO, DEEP, RB>>,
      FenceOpen, FenceClose, FenceOpen \o FenceClose,
      FenceOpen \o <<NL, "n", "u", "l", "l", NL>> \o FenceClose }

OtherReplies == {[text |-> t, kind |-> "other", rec |-> None, wrapper |-> "none"] : t \in OtherTexts}

Replies ==
    RecordReplies \cup QuoteReplies \cup DropReplies \cup LinesReplies \cup OtherReplies

(***************************************************************************)
(* The state of one request.                                               *)
(***************************************************************************)
VARIABLES
    pc,                \* the place the request has reached
    secrets,           \* the keys that st.secrets["aws"] holds
    retry_count, retry_delay, error_message,   \* locals of generate_response
    exc,               \* the exception that invoke_model or the decoding raised
    calls,             \* the number of bedrock.invoke_model calls issued
    slept,             \* the arguments of the time.sleep calls, in order
    reply,             \* the reply that the model gave, if it gave one
    analysis_result,   \* what generate_response returned
    cleaned_response,
    e,                 \* the JSONDecodeError of the first parse
    stages,            \* the parse and repair attempts made, in order
    analysis,          \* what analyze_stored_procedure returned
    ui,                \* the calls made on the page (st.error, st.warning, ...)
    doc,               \* the elements of the Word document
    report_md          \* the Markdown report

vars == <<pc, secrets, retry_count, retry_delay, error_message, exc, calls, slept, reply,
          analysis_result, cleaned_response, e, stages, analysis, ui, doc, report_md>>

max_retries == 3
initial_delay == 5

SecretKeys == {"aws_access_key_id", "aws_secret_access_key", "aws_region"}

\* what an attempt raises: bedrock.invoke_model fails (ClientError), the body
\* of the reply is no JSON (JSONDecodeError at line 316), or the reply has no
\* content[0]["text"] (KeyError at line 317); str(e) is the name here
Failures == {"ClientError", "JSONDecodeError", "KeyError"}

\* the failures of a reply that the transport delivered
Malformed == {"JSONDecodeError", "KeyError"}

NoReply == [text |-> <<>>, kind |-> "none", rec |-> None, wrapper |-> "none"]

\* one call on the page: widget, fixed part of the message, and its arguments
Ev(w, tag, n, msg, text) == [w |-> w, tag |-> tag, n |-> n, msg |-> msg, text |-> text]

Init ==
    /\ pc = "button"
    /\ secrets \in SUBSET SecretKeys
    /\ retry_count = 0
    /\ retry_delay = 0
    /\ error_message = ""
    /\ exc = ""
    /\ calls = 0
    /\ slept = <<>>
    /\ reply = NoReply
    /\ analysis_result = None
    /\ cleaned_response = <<>>
    /\ e = [msg |-> "", line |-> 0]
    /\ stages = <<>>
    /\ analysis = None
    /\ ui = <<>>
    /\ doc = <<>>
    /\ report_md = <<>>

(***************************************************************************)
(* The button (lines 581-588) and the start of analyze_stored_procedure.   *)
(***************************************************************************)
ClickAnalyze ==
    /\ pc = "button"
    /\ IF "aws_access_key_id" \notin secrets
       THEN /\ ui' = Append(ui, Ev("error", "AWS credentials are not configured", 0, "", <<>>))
            /\ pc' = "done"
       ELSE /\ pc' = "secrets"
            /\ UNCHANGED ui
    /\ UNCHANGED <<secrets, retry_count, retry_delay, error_message, exc, calls, slept, reply,
                   analysis_result, cleaned_response, e, stages, analysis, doc, report_md>>

\* the handler of the outer try (lines 451-455)
OuterExcept(name) ==
    /\ ui' = ui \o << Ev("error", "Error during analysis", 0, name, <<>>),
                      Ev("sidebar", "Error Details", 0, name, <<>>) >>
    /\ analysis' = None
    /\ pc' = "ui"

\* the look-up of the region never fails
ReadSecrets_NoRegion ==
    /\ pc = "secrets"
    /\ IF {"aws_access_key_id", "aws_secret_access_key"} \ secrets # {}
       THEN OuterExcept("KeyError")
       ELSE /\ pc' = "prompt"
            /\ UNCHANGED <<ui, analysis>>
    /\ UNCHANGED <<secrets, retry_count, retry_delay, error_message, exc, calls, slept, reply,
                   analysis_result, cleaned_response, e, stages, doc, report_md>>

\* lines 179-190: a missing key makes st.secrets raise KeyError
ReadSecrets ==
    /\ pc = "secrets"
    /\ IF SecretKeys \ secrets # {}
       THEN OuterExcept("KeyError")
       ELSE /\ pc' = "prompt"
            /\ UNCHANGED <<ui, analysis>>
    /\ UNCHANGED <<secrets, retry_count, retry_delay, error_message, exc, calls, slept, reply,
                   analysis_result, cleaned_response, e, stages, doc, report_md>>

\* Lines 198-286.  The f-string holds the JSON example of lines 239-257
\* with single braces, so its evaluation formats "procedure_name" with the
\* rest of the example as format specification and raises ValueError: that
\* is outcome "ValueError", the one the file as written has.  Outcome
\* "prompt" is the prompt being built, as it is once the braces of the
\* example are doubled; lines 288-449 run only after it.
PromptOutcomes == {"ValueError", "prompt"}

BuildPrompt ==
    /\ pc = "prompt"
    /\ \E outcome \in PromptOutcomes :
          IF outcome = "ValueError"
          THEN /\ OuterExcept("ValueError")
               /\ UNCHANGED <<retry_count, retry_delay>>
          ELSE /\ pc' = "invoke"
               /\ retry_count' = 0
               /\ retry_delay' = initial_delay
               /\ UNCHANGED <<ui, analysis>>
    /\ UNCHANGED <<secrets, error_message, exc, calls, slept, reply, analysis_result,
                   cleaned_response, e, stages, doc, report_md>>

(***************************************************************************)
(* generate_response (lines 288-334).                                      *)
(***************************************************************************)
\* lines 307-317, the attempt raises
InvokeRaises ==
    /\ pc = "invoke"
    /\ retry_count <= max_retries
    /\ calls' = calls + 1
    /\ \E f \in Failures : exc' = f
    /\ pc' = "except"
    /\ UNCHANGED <<secrets, retry_count, retry_delay, error_message, slept, reply,
                   analysis_result, cleaned_response, e, stages, analysis, ui, doc, report_md>>

\* lines 307-317, the attempt returns the text of the reply
InvokeReturns ==
    /\ pc = "invoke"
    /\ retry_count <= max_retries
    /\ calls' = calls + 1
    /\ \E r \in Replies :
          /\ reply' = r
          /\ analysis_result' = JStr(r.text)
    /\ pc' = "check"
    /\ UNCHANGED <<secrets, retry_count, retry_delay, error_message, exc, slept,
                   cleaned_response, e, stages, analysis, ui, doc, report_md>>

\* gives up when retry_count reaches max_retries
HandleError_GivesUpEarly ==
    /\ pc = "except"
    /\ retry_count' = retry_count + 1
    /\ error_message' = exc
    /\ IF retry_count' >= max_retries
       THEN /\ ui' = Append(ui, Ev("error", "Can't invoke model", max_retries, error_message', <<>>))
            /\ analysis_result' = None
            /\ pc' = "check"
       ELSE /\ ui' = ui \o << Ev("warning", "Retry", retry_count', error_message', <<>>),
                              Ev("info", "Waiting", retry_delay, "", <<>>) >>
            /\ pc' = "sleep"
            /\ UNCHANGED analysis_result
    /\ UNCHANGED <<secrets, retry_delay, exc, calls, slept, reply, cleaned_response, e, stages,
                   analysis, doc, report_md>>

\* keeps the message of the first failure
HandleError_FirstMessage ==
    /\ pc = "except"
    /\ retry_count' = retry_count + 1
    /\ error_message' = IF retry_count = 0 THEN exc ELSE error_message
    /\ IF retry_count' > max_retries
       THEN /\ ui' = Append(ui, Ev("error", "Can't invoke model", max_retries, error_message', <<>>))
            /\ analysis_result' = None
            /\ pc' = "check"
       ELSE /\ ui' = ui \o << Ev("warning", "Retry", retry_count', error_message', <<>>),
                              Ev("info", "Waiting", retry_delay, "", <<>>) >>
            /\ pc' = "sleep"
            /\ UNCHANGED analysis_result
    /\ UNCHANGED <<secrets, retry_delay, exc, calls, slept, reply, cleaned_response, e, stages,
                   analysis, doc, report_md>>

\* reports the initial delay before every wait
HandleError_ReportsInitialDelay ==
    /\ pc = "except"
    /\ retry_count' = retry_count + 1
    /\ error_message' = exc
    /\ IF retry_count' > max_retries
       THEN /\ ui' = Append(ui, Ev("error", "Can't invoke model", max_retries, error_message', <<>>))
            /\ analysis_result' = None
            /\ pc' = "check"
       ELSE /\ ui' = ui \o << Ev("warning", "Retry", retry_count', error_message', <<>>),
                              Ev("info", "Waiting", initial_delay, "", <<>>) >>
            /\ pc' = "sleep"
            /\ UNCHANGED analysis_result
    /\ UNCHANGED <<secrets, retry_delay, exc, calls, slept, reply, cleaned_response, e, stages,
                   analysis, doc, report_md>>

\* a reply that is delivered but malformed is not retried
HandleError_MalformedNotRetried ==
    /\ pc = "except"
    /\ retry_count' = retry_count + 1
    /\ error_message' = exc
    /\ IF retry_count' > max_retries \/ exc \in Malformed
       THEN /\ ui' = Append(ui, Ev("error", "Can't invoke model", max_retries, error_message', <<>>))
            /\ analysis_result' = None
            /\ pc' = "check"
       ELSE /\ ui' = ui \o << Ev("warning", "Retry", retry_count', error_message', <<>>),
                              Ev("info", "Waiting", retry_delay, "", <<>>) >>
            /\ pc' = "sleep"
            /\ UNCHANGED analysis_result
    /\ UNCHANGED <<secrets, retry_delay, exc, calls, slept, reply, cleaned_response, e, stages,
                   analysis, doc, report_md>>

\* lines 319-330
HandleError ==
    /\ pc = "except"
    /\ retry_count' = retry_count + 1
    /\ error_message' = exc
    /\ IF retry_count' > max_retries
       THEN /\ ui' = Append(ui, Ev("error", "Can't invoke model", max_retries, error_message', <<>>))
            /\ analysis_result' = None
            /\ pc' = "check"
       ELSE /\ ui' = ui \o << Ev("warning", "Retry", retry_count', error_message', <<>>),
                              Ev("info", "Waiting", retry_delay, "", <<>>) >>
            /\ pc' = "sleep"
            /\ UNCHANGED analysis_result
    /\ UNCHANGED <<secrets, retry_delay, exc, calls, slept, reply, cleaned_response, e, stages,
                   analysis, doc, report_md>>

\* the delay grows by the initial delay instead of doubling
Sleep_Linear ==
    /\ pc = "sleep"
    /\ slept' = Append(slept, retry_delay)
    /\ retry_delay' = retry_delay + initial_delay
    /\ IF retry_count <= max_retries
       THEN pc' = "invoke" /\ UNCHANGED analysis_result
       ELSE pc' = "check" /\ analysis_result' = None
    /\ UNCHANGED <<secrets, retry_count, error_message, exc, calls, reply, cleaned_response, e,
                   stages, analysis, ui, doc, report_md>>

\* lines 333-334, and the test of the loop at line 307: a loop that ends
\* makes generate_response return None
Sleep ==
    /\ pc = "sleep"
    /\ slept' = Append(slept, retry_delay)
    /\ retry_delay' = retry_delay * 2
    /\ IF retry_count <= max_retries
       THEN pc' = "invoke" /\ UNCHANGED analysis_result
       ELSE pc' = "check" /\ analysis_result' = None
    /\ UNCHANGED <<secrets, retry_count, error_message, exc, calls, reply, cleaned_response, e,
                   stages, analysis, ui, doc, report_md>>

(***************************************************************************)
(* The rest of analyze_stored_procedure (lines 336-455).                   *)
(***************************************************************************)
Max(a, b) == IF a > b THEN a ELSE b
Min(a, b) == IF a < b THEN a ELSE b

\* lines 361-365
ProblematicSection(s, error_line) ==
    LET start_line == Max(0, error_line - 3)
        end_line == Min(NumLines(s), error_line + 3)
    IN SubSeq(s, LineStart(s, start_line + 1), LineEnd(s, end_line) - 1)

\* lines 339-350
CheckResult ==
    /\ pc = "check"
    /\ IF ~Truthy(analysis_result)
       THEN /\ analysis' = None
            /\ pc' = "ui"
            /\ UNCHANGED <<ui, cleaned_response>>
       ELSE /\ ui' = Append(ui, Ev("sidebar", "Debug Raw Response", 0, "", analysis_result.s))
            /\ cleaned_response' = CleanResponse(analysis_result.s)
            /\ pc' = "S0"
            /\ UNCHANGED analysis
    /\ UNCHANGED <<secrets, retry_count, retry_delay, error_message, exc, calls, slept, reply,
                   analysis_result, e, stages, doc, report_md>>

\* lines 353-367: the first parse and, when it fails, the display of the error
StrictParse ==
    /\ pc = "S0"
    /\ stages' = Append(stages, "S0")
    /\ LET r == Loads(cleaned_response)
           line == LineNo(cleaned_response, r.pos)
       IN IF r.ok
          THEN /\ analysis' = r.v
               /\ pc' = "ui"
               /\ UNCHANGED <<ui, e>>
          ELSE IF ~IsDecodeError(r)
          THEN /\ OuterExcept(r.msg)
               /\ UNCHANGED e
          ELSE /\ e' = [msg |-> r.msg, line |-> line]
               /\ ui' = ui \o << Ev("warning", "Initial JSON parsing failed", line, r.msg, <<>>),
                                 Ev("warning", "Problematic section around line", line, "", <<>>),
                                 Ev("code", "", 0, "",
                                    ProblematicSection(cleaned_response, line)) >>
               /\ pc' = IF r.msg = "Unterminated string starting at" THEN "S1" ELSE "S3"
               /\ UNCHANGED analysis
    /\ UNCHANGED <<secrets, retry_count, retry_delay, error_message, exc, calls, slept, reply,
                   analysis_result, cleaned_response, doc, report_md>>

\* the handler of the inner try (lines 446-449)
InnerExcept ==
    /\ analysis' = None
    /\ pc' = "ui"

InnerExceptEvents(name) ==
    << Ev("error", "JSON repair attempt failed", 0, name, <<>>),
       Ev("code", "", 0, "", cleaned_response) >>

\* lines 371-389
StringRepair ==
    /\ pc = "S1"
    /\ stages' = Append(stages, "S1")
    /\ LET b == LineStart(cleaned_response, e.line)
           n == LineEnd(cleaned_response, e.line)
           odd == CountIn(SubSeq(cleaned_response, b, n - 1), n - b, DQ) % 2 = 1
           shown == <<Ev("info", "Attempting to fix unterminated string", 0, "", <<>>)>>
                    \o (IF odd THEN <<Ev("info", "Added closing quote to line", e.line, "", <<>>)>>
                        ELSE <<>>)
           r == Loads(RepairUnterminated(cleaned_response, e.line))
       IN IF r.ok
          THEN /\ analysis' = r.v
               /\ pc' = "ui"
               /\ ui' = ui \o shown
          ELSE IF ~IsDecodeError(r)
          THEN /\ InnerExcept
               /\ ui' = ui \o shown \o InnerExceptEvents(r.msg)
          ELSE /\ ui' = ui \o shown
                          \o <<Ev("warning", "String repair attempt failed", 0, "", <<>>)>>
               /\ pc' = "S3"
               /\ UNCHANGED analysis
    /\ UNCHANGED <<secrets, retry_count, retry_delay, error_message, exc, calls, slept, reply,
                   analysis_result, cleaned_response, e, doc, report_md>>

\* the extraction is not tried: the text goes on to the field salvage
Extraction_GivesUp ==
    /\ pc = "S3"
    /\ stages' = Append(stages, "S3")
    /\ ui' = Append(ui, Ev("info", "Attempting fallback approach with manual JSON extraction",
                           0, "", <<>>))
    /\ pc' = "S5"
    /\ UNCHANGED <<secrets, retry_count, retry_delay, error_message, exc, calls, slept, reply,
                   analysis_result, cleaned_response, e, analysis, doc, report_md>>

\* lines 392-402
Extraction ==
    /\ pc = "S3"
    /\ stages' = Append(stages, "S3")
    /\ LET shown == <<Ev("info", "Attempting fallback approach with manual JSON extraction",
                         0, "", <<>>)>>
           r == IF RegexMatches(cleaned_response)
                THEN Loads(RegexGroup(cleaned_response))
                ELSE Err("no match", 0)
       IN IF r.ok
          THEN /\ analysis' = r.v
               /\ pc' = "ui"
               /\ ui' = ui \o shown
          ELSE IF ~IsDecodeError(r)
          THEN /\ InnerExcept
               /\ ui' = ui \o shown \o InnerExceptEvents(r.msg)
          ELSE /\ ui' = ui \o shown
                          \o (IF RegexMatches(cleaned_response)
                              THEN <<Ev("warning", "Regex extraction failed", 0, "", <<>>)>>
                              ELSE <<>>)
               /\ pc' = "S5"
               /\ UNCHANGED analysis
    /\ UNCHANGED <<secrets, retry_count, retry_delay, error_message, exc, calls, slept, reply,
                   analysis_result, cleaned_response, e, doc, report_md>>

\* lines 404-444
Salvage ==
    /\ pc = "S5"
    /\ stages' = Append(stages, "S5")
    /\ ui' = ui \o << Ev("info", "Attempting to reconstruct basic analysis structure",
                         0, "", <<>>),
                      Ev("error", "Failed to parse JSON response", e.line, e.msg, <<>>),
                      Ev("code", "", 0, "", cleaned_response) >>
    /\ analysis' = MinimalJson(cleaned_response)
    /\ pc' = "ui"
    /\ UNCHANGED <<secrets, retry_count, retry_delay, error_message, exc, calls, slept, reply,
                   analysis_result, cleaned_response, e, doc, report_md>>

(***************************************************************************)
(* The display of the result (lines 590-734) and create_word_document      *)
(* (lines 26-163).  The string fields of the replies above are strings or  *)
(* absent, so TextOf is only ever applied to a string.                     *)
(***************************************************************************)
TextOf(v) == IF v.k = "str" THEN v.s ELSE <<>>

\* the values that `for opt in x` yields
IterItems(v) ==
    CASE v.k = "arr" -> v.items
      [] v.k = "obj" -> [i \in 1..Len(v.keys) |-> JStr(v.keys[i])]
      [] OTHER -> [i \in 1..Len(v.s) |-> JStr(<<v.s[i]>>)]

\* opt[f] is defined for every f of fields
StepOk(opt, fields) == \A f \in fields : HasKey(opt, <<f>>)

\* analysis[f] for the four fields read, and the loop over the steps
StepsRaise(a, fields) ==
    IF \E i \in 1..4 : ~HasKey(a, <<TopFields[i]>>) THEN TRUE
    ELSE LET opts == Get(a, <<"optimizations">>)
         IN IF opts.k = "null" THEN TRUE
            ELSE \E i \in 1..Len(IterItems(opts)) : ~StepOk(IterItems(opts)[i], fields)

\* lines 665-672
SummaryRaises(a) ==
    IF ~HasKey(a, <<"summary">>) THEN FALSE
    ELSE LET sm == Get(a, <<"summary">>)
         IN CASE sm.k = "null" -> TRUE
              [] sm.k = "obj" -> FALSE
              [] sm.k = "str" ->
                   \E i \in 1..Len(sm.s), k \in 1..3 : sm.s[i] = SummaryFields[k]
              [] OTHER ->
                   \E i \in 1..Len(sm.items), k \in 1..3 :
                       sm.items[i] = JStr(<<SummaryFields[k]>>)

\* lines 596-672 raise (KeyError or TypeError)
Tab1Raises(a) ==
    StepsRaise(a, {StepFields[k] : k \in 1..5}) \/ SummaryRaises(a)

Steps(a) == IterItems(Get(a, <<"optimizations">>))

\* line 590
ShowResult ==
    /\ pc = "ui"
    /\ IF Truthy(analysis)
       THEN /\ pc' = "tab1"
            /\ UNCHANGED ui
       ELSE /\ ui' = Append(ui, Ev("error", "Analysis could not be completed", 0, "", <<>>))
            /\ pc' = "done"
    /\ UNCHANGED <<secrets, retry_count, retry_delay, error_message, exc, calls, slept, reply,
                   analysis_result, cleaned_response, e, stages, analysis, doc, report_md>>

\* lines 592-672; an exception here is caught by nothing in the file
RenderAnalysis ==
    /\ pc = "tab1"
    /\ IF Tab1Raises(analysis)
       THEN /\ ui' = Append(ui, Ev("exception", "uncaught", 0, "", <<>>))
            /\ pc' = "crashed"
       ELSE /\ ui' = ui
                  \o <<Ev("header", "Stored Proc Name", 0, "",
                          TextOf(Get(analysis, <<"procedure_name">>)))>>
                  \o [i \in 1..Len(Steps(analysis)) |->
                         Ev("markdown", "Step", i, "",
                            TextOf(Get(Steps(analysis)[i], <<"type">>)))]
                  \o <<Ev("markdown", "summary-table", Len(Steps(analysis)), "", <<>>)>>
            /\ pc' = "word"
    /\ UNCHANGED <<secrets, retry_count, retry_delay, error_message, exc, calls, slept, reply,
                   analysis_result, cleaned_response, e, stages, analysis, doc, report_md>>

\* one element of the document: a heading of a level, a paragraph, or a
\* table with its rows
El(el, level, n, text, rows) ==
    [el |-> el, level |-> level, n |-> n, text |-> text, rows |-> rows]

GetOr(opt, key, default) ==
    IF HasKey(opt, <<key>>) THEN TextOf(Get(opt, <<key>>)) ELSE default

\* lines 51-90
RECURSIVE StepSections(_, _)
StepSections(opts, i) ==
    IF i > Len(opts) THEN <<>>
    ELSE << El("heading", 2, i, TextOf(Get(opts[i], <<"type">>)), <<>>),
            El("heading", 3, 0, <<"Existing Logic:">>, <<>>),
            El("paragraph", 0, 0, TextOf(Get(opts[i], <<"existing_logic">>)), <<>>),
            El("heading", 3, 0, <<"Optimized Logic:">>, <<>>),
            El("paragraph", 0, 0, TextOf(Get(opts[i], <<"optimized_logic">>)), <<>>),
            El("paragraph", 0, 0, TextOf(Get(opts[i], <<"explanation">>)), <<>>),
            El("paragraph", 0, 0, <<"_">>, <<>>) >>
         \o StepSections(opts, i + 1)

\* lines 96-104
TableData(opts) ==
    [i \in 1..Len(opts) |->
        << GetOr(opts[i], "type", <<"N/A">>), GetOr(opts[i], "line_number", <<"N/A">>),
           GetOr(opts[i], "existing_logic", <<>>), GetOr(opts[i], "optimized_logic", <<>>),
           GetOr(opts[i], "explanation", <<>>) >>]

Headers == << <<"Type of Change">>, <<"Line Number">>, <<"Original Code Snippet">>,
              <<"Optimized Code Snippet">>, <<"Optimization Explanation">> >>

\* the table has no header row
SummaryTable_NoHeader(table_data) ==
    IF Len(table_data) > 0
    THEN <<El("table", 0, 0, <<>>, table_data)>>
    ELSE <<El("paragraph", 0, 0, <<"No optimization suggestions were generated.">>, <<>>)>>

\* lines 107-156
SummaryTable(table_data) ==
    IF Len(table_data) > 0
    THEN <<El("table", 0, 0, <<>>, <<Headers>> \o table_data)>>
    ELSE <<El("paragraph", 0, 0, <<"No optimization suggestions were generated.">>, <<>>)>>

\* create_word_document raises (lines 38-85)
WordRaises(a) ==
    StepsRaise(a, {"type", "existing_logic", "optimized_logic", "explanation"})

\* create_word_document, as the elements added to the document
create_word_document(a) ==
    << El("heading", 0, 0, <<"SQL Stored Procedure Analysis Report">>, <<>>),
       El("heading", 1, 0, <<"Stored Procedure Name:">>, <<>>),
       El("paragraph", 0, 0, TextOf(Get(a, <<"procedure_name">>)), <<>>),
       El("heading", 1, 0, <<"Complexity:">>, <<>>),
       El("paragraph", 0, 0, TextOf(Get(a, <<"complexity">>)), <<>>),
       El("heading", 1, 0, <<"Scope:">>, <<>>),
       El("paragraph", 0, 0, TextOf(Get(a, <<"scope">>)), <<>>),
       El("heading", 1, 0, <<"Optimization Steps:">>, <<>>) >>
    \o StepSections(Steps(a), 1)
    \o <<El("heading", 1, 0, <<"Summary:">>, <<>>)>>
    \o SummaryTable(TableData(Steps(a)))

\* lines 676-686
DownloadWord ==
    /\ pc = "word"
    /\ IF WordRaises(analysis)
       THEN /\ ui' = Append(ui, Ev("exception", "uncaught", 0, "", <<>>))
            /\ pc' = "crashed"
            /\ UNCHANGED doc
       ELSE /\ doc' = create_word_document(analysis)
            /\ ui' = Append(ui, Ev("download_button", "docx", 0, "",
                                   TextOf(Get(analysis, <<"procedure_name">>))))
            /\ pc' = "markdown"
    /\ UNCHANGED <<secrets, retry_count, retry_delay, error_message, exc, calls, slept, reply,
                   analysis_result, cleaned_response, e, stages, analysis, report_md>>

(***************************************************************************)
(* The Markdown report (lines 689-730), as a text.                         *)
(***************************************************************************)
\* str(i)
NumSym(i) == <<"1", "2", "3", "4", "5", "6", "7", "8", "9">>[i]

Fence == <<BT, BT, BT>>

\* lines 703-719
RECURSIVE StepBlocks(_, _)
StepBlocks(opts, i) ==
    IF i > Len(opts) THEN <<>>
    ELSE <<NL, "### Step ", NumSym(i), ": ">> \o TextOf(Get(opts[i], <<"type">>))
         \o <<NL, NL, "**Existing Logic:**", NL>> \o Fence \o <<"sql", NL>>
         \o TextOf(Get(opts[i], <<"existing_logic">>)) \o <<NL>> \o Fence
         \o <<NL, NL, "**Optimized Logic:**", NL>> \o Fence \o <<"sql", NL>>
         \o TextOf(Get(opts[i], <<"optimized_logic">>)) \o <<NL>> \o Fence
         \o <<NL, NL, "*">> \o TextOf(Get(opts[i], <<"explanation">>))
         \o <<"*", NL, NL, "---", NL>>
         \o StepBlocks(opts, i + 1)

\* summary_df.to_markdown(index=False) is tabulate(..., tablefmt="pipe"): a
\* header line, a line of dashes and the lines of each row of the frame; the
\* frame of no rows has no columns and gives the empty text.  A cell that
\* holds line breaks is split with str.splitlines() and its row takes as many
\* lines as its tallest cell, the shorter cells being blank there.  The
\* padding of the cells to the width of the column is left out.
CellHeight(cell) ==
    IF cell = <<>> THEN 0
    ELSE IF cell[Len(cell)] = NL THEN NumLines(cell) - 1 ELSE NumLines(cell)

CellLine(cell, k) ==
    IF k > CellHeight(cell) THEN <<>>
    ELSE SubSeq(cell, LineStart(cell, k), LineEnd(cell, k) - 1)

RowHeight(row) ==
    CHOOSE h \in {CellHeight(row[c]) : c \in 1..5} :
        \A c \in 1..5 : CellHeight(row[c]) <= h

RECURSIVE RowLines(_, _)
RowLines(row, k) ==
    IF k > RowHeight(row) THEN <<>>
    ELSE <<NL, "|">> \o CellLine(row[1], k) \o <<"|">> \o CellLine(row[2], k) \o <<"|">>
         \o CellLine(row[3], k) \o <<"|">> \o CellLine(row[4], k) \o <<"|">>
         \o CellLine(row[5], k) \o <<"|">> \o RowLines(row, k + 1)

RECURSIVE MdRows(_, _)
MdRows(rows, i) ==
    IF i > Len(rows) THEN <<>>
    ELSE RowLines(rows[i], 1) \o MdRows(rows, i + 1)

to_markdown(rows) ==
    IF Len(rows) = 0 THEN <<>> ELSE <<"|headers|", NL, "|:---|">> \o MdRows(rows, 1)

\* lines 623-631: the rows of summary_df
SummaryData(opts) ==
    [i \in 1..Len(opts) |->
        [k \in 1..5 |-> TextOf(Get(opts[i], <<StepFields[k]>>))]]

MarkdownText(a) ==
    <<"# SQL Stored Procedure Analysis Report", NL, NL, "## Procedure Name: ">>
    \o TextOf(Get(a, <<"procedure_name">>))
    \o <<NL, NL, "## Complexity:", NL>> \o TextOf(Get(a, <<"complexity">>))
    \o <<NL, NL, "## Scope:", NL>> \o TextOf(Get(a, <<"scope">>))
    \o <<NL, NL, "## Optimization Steps:", NL>>
    \o StepBlocks(Steps(a), 1)
    \o <<NL, "## Summary Table:", NL, NL>>
    \o to_markdown(SummaryData(Steps(a)))

\* lines 689-732
DownloadMarkdown ==
    /\ pc = "markdown"
    /\ report_md' = MarkdownText(analysis)
    /\ ui' = ui \o << Ev("download_button", "md", 0, "",
                         TextOf(Get(analysis, <<"procedure_name">>))),
                      Ev("info", "The Word document contains the same content", 0, "", <<>>) >>
    /\ pc' = "done"
    /\ UNCHANGED <<secrets, retry_count, retry_delay, error_message, exc, calls, slept, reply,
                   analysis_result, cleaned_response, e, stages, analysis, doc>>

Next ==
    \/ ClickAnalyze
    \/ ReadSecrets
    \/ BuildPrompt
    \/ InvokeRaises
    \/ InvokeReturns
    \/ HandleError
    \/ Sleep
    \/ CheckResult
    \/ StrictParse
    \/ StringRepair
    \/ Extraction
    \/ Salvage
    \/ ShowResult
    \/ RenderAnalysis
    \/ DownloadWord
    \/ DownloadMarkdown

Spec == Init /\ [][Next]_vars

(***************************************************************************)
(* Properties.                                                             *)
(***************************************************************************)
\* generate_response has returned
InvokerDone == pc \notin {"button", "secrets", "prompt", "invoke", "except", "sleep"}

\* the model gave a reply, and the reply holds some text
Replied == reply.kind # "none" /\ Len(reply.text) > 0

HasEvent(w, tag) == \E i \in 1..Len(ui) : ui[i].w = w /\ ui[i].tag = tag

\* C1: when every call of invoke_model fails, generate_response issues
\* exactly max_retries + 1 = 4 calls, never a fifth one, and returns None.
C1_FourCallsThenFailure ==
    /\ calls <= 4
    /\ (InvokerDone /\ calls > 0 /\ reply.kind = "none") =>
          (calls = max_retries + 1 /\ calls = 4 /\ analysis_result = None)

C1_Witness == pc = "check" /\ reply.kind = "none" /\ calls = 4

\* C2: when the transport fails k times (k in 0..3) and then replies,
\* generate_response returns the text of that reply after exactly k + 1
\* calls and calls no more; the wait before retry j is 5 * 2^(j-1) seconds,
\* so 15 seconds have been waited before a third call; there are never more
\* than 4 calls.
C2_BackoffThenReply ==
    /\ calls <= 4
    /\ \A j \in 1..Len(slept) : slept[j] = 5 * 2^(j - 1)
    /\ calls >= 3 => slept[1] + slept[2] = 15
    /\ reply.kind # "none" =>
          /\ retry_count \in 0..3
          /\ calls = retry_count + 1
          /\ Len(slept) = retry_count
          /\ analysis_result = JStr(reply.text)

C2_Witness == pc = "check" /\ reply.kind # "none" /\ retry_count = 2 /\ calls = 3

\* a record that the page can show: not None, and lines 596-672 do not raise
Usable(a) == Truthy(a) /\ ~Tab1Raises(a)

\* C3: once the model has replied with some text, analyze_stored_procedure
\* returns a record that is not None and that the page can show, whatever
\* the text is.
C3_AlwaysUsableRecord == (pc = "ui" /\ Replied) => Usable(analysis)

\* the text holds no span "{" ... "}" that is a JSON object
NoValidObject(t) ==
    \A i \in 1..Len(t), j \in 1..Len(t) :
        (i < j /\ t[i] = LB /\ t[j] = RB) => ~Loads(SubSeq(t, i, j)).ok

IsFallback(a) ==
    /\ \A k \in 1..5 : HasKey(a, <<TopFields[k]>>)
    /\ Get(a, <<"optimizations">>) = Get(MinimalJson(<<>>), <<"optimizations">>)
    /\ Len(Get(a, <<"optimizations">>).items) = 1
    /\ Get(a, <<"scope">>).k = "str"
    /\ Len(Get(a, <<"scope">>).s) > 0

\* C4: for a reply that holds no valid {...} structure the analysis returns
\* a record with exactly one placeholder step and a non-empty scope.
C4_FallbackRecord ==
    (pc = "ui" /\ Replied /\ NoValidObject(reply.text)) => IsFallback(analysis)

\* the wrappers that leave a JSON text, for json.loads or after the clean-up
JsonWrappers == {"none", "space", "fence"}

\* C5: a reply that is valid JSON of the schema is accepted by the first
\* parse: the record returned is the record of the text, and no repair
\* stage is entered.
C5_StrictParseAccepts ==
    (reply.kind = "record" /\ reply.wrapper \in JsonWrappers) =>
        /\ pc \notin {"S1", "S3", "S5"}
        /\ stages \in {<<>>, <<"S0">>}
        /\ (stages = <<"S0">> => analysis = reply.rec /\ Usable(analysis))

C5_Witness ==
    /\ pc = "ui" /\ stages = <<"S0">>
    /\ reply.kind = "record" /\ reply.wrapper = "fence"
    /\ Len(Get(analysis, <<"optimizations">>).items) = 2

\* C6: every record that a stage returns has the five top-level fields.
C6_FiveFields ==
    (pc = "ui" /\ stages # <<>> /\ analysis # None) =>
        \A k \in 1..5 : HasKey(analysis, <<TopFields[k]>>)

\* C7: for a reply that is a record but for one unescaped quote in a string
\* value, and whose first parse reports an unterminated string, the string
\* repair returns the record.
C7_RepairRestoresRecord ==
    (pc = "ui" /\ reply.kind = "quote" /\ e.msg = "Unterminated string starting at") =>
        analysis = reply.rec

\* C8: when one of the three configuration values is missing, an error is
\* shown, the request ends with no record, and invoke_model is never called.
C8_MissingConfiguration ==
    (SecretKeys \ secrets # {}) =>
        /\ calls = 0
        /\ analysis = None /\ stages = <<>> /\ doc = <<>> /\ report_md = <<>>
        /\ pc \in {"button", "secrets", "ui", "done"}
        /\ pc = "done" => \E i \in 1..Len(ui) : ui[i].w = "error"

C8_Witness ==
    /\ pc = "done" /\ "aws_region" \notin secrets /\ "aws_access_key_id" \in secrets
    /\ HasEvent("error", "Error during analysis")

\* C9: when the retries are exhausted, the error shown carries the message
\* of the last failed attempt, the request ends without an uncaught
\* exception, no parse or repair stage runs and there is no record.
C9_ExhaustedRetries ==
    /\ \A i \in 1..Len(ui) : ui[i].tag = "Can't invoke model" => ui[i].msg = exc
    /\ (InvokerDone /\ calls = 4 /\ reply.kind = "none") =>
          /\ HasEvent("error", "Can't invoke model")
          /\ stages = <<>> /\ analysis = None /\ analysis_result = None
          /\ pc \in {"check", "ui", "done"}

C9_Witness ==
    /\ pc = "done" /\ calls = 4 /\ reply.kind = "none" /\ exc = "KeyError"
    /\ ui[1].tag = "Retry" /\ ui[1].msg = "ClientError"

StepHeadings == SelectSeq(doc, LAMBDA x : x.el = "heading" /\ x.level = 2)
Tables == SelectSeq(doc, LAMBDA x : x.el = "table")
Placeholders ==
    SelectSeq(doc, LAMBDA x : x.el = "paragraph"
                              /\ x.text = <<"No optimization suggestions were generated.">>)

\* C10: for a record of N steps the document has exactly N step sections,
\* in the order of the record, and one table of N + 1 rows if N > 0; if
\* N = 0 it has no table and exactly one placeholder paragraph.
C10_WordDocument ==
    doc # <<>> =>
        LET opts == Steps(analysis)
            N == Len(opts)
        IN /\ Len(StepHeadings) = N
           /\ \A i \in 1..N : /\ StepHeadings[i].n = i
                              /\ StepHeadings[i].text = Get(opts[i], <<"type">>).s
           /\ IF N > 0
              THEN /\ Len(Tables) = 1
                   /\ Len(Tables[1].rows) = N + 1
                   /\ \A i \in 1..N :
                          Tables[1].rows[i + 1][1] = Get(opts[i], <<"type">>).s
                   /\ Len(Placeholders) = 0
              ELSE Len(Tables) = 0 /\ Len(Placeholders) = 1

C10_Witness ==
    /\ doc # <<>> /\ Len(Steps(analysis)) = 2 /\ Len(Tables) = 1
    /\ StepHeadings[1].text # StepHeadings[2].text

\* the text s holds the text p at index i
MatchAt(s, i, p) == \A k \in 1..Len(p) : At(s, i + k - 1) = p[k]

\* the fenced code blocks of the report: the indexes where a block opens, the
\* text of the k-th block, up to the line that closes it
BlockOpens == {i \in 1..Len(report_md) : MatchAt(report_md, i, Fence \o <<"sql", NL>>)}

BlockText(k) ==
    LET i == CHOOSE j \in BlockOpens : Cardinality({h \in BlockOpens : h <= j}) = k
        close == CHOOSE j \in (i + 4)..Len(report_md) :
                     /\ MatchAt(report_md, j, <<NL>> \o Fence)
                     /\ \A h \in (i + 4)..(j - 1) : ~MatchAt(report_md, h, <<NL>> \o Fence)
    IN SubSeq(report_md, i + 5, close - 1)

\* the lines of the table that follow its header and its line of dashes
TableDataRows ==
    {i \in 2..Len(report_md) : report_md[i] = "|" /\ report_md[i - 1] = NL}

\* C11: for a record of N steps the Markdown report holds exactly N pairs of
\* fenced code blocks, the existing and the optimized logic of each step in
\* the order of the record, and its table has exactly N data rows.
C11_MarkdownReport ==
    report_md # <<>> =>
        LET opts == Steps(analysis)
            N == Len(opts)
        IN /\ Cardinality(BlockOpens) = 2 * N
           /\ \A i \in 1..N :
                 /\ BlockText(2 * i - 1) = Get(opts[i], <<"existing_logic">>).s
                 /\ BlockText(2 * i) = Get(opts[i], <<"optimized_logic">>).s
           /\ Cardinality(TableDataRows) = N

\* a step of the record lacks one of its five fields
StepFieldMissing(rec) ==
    /\ HasKey(rec, <<"optimizations">>)
    /\ \E i \in 1..Len(Steps(rec)), k \in 1..5 : ~HasKey(Steps(rec)[i], <<StepFields[k]>>)

\* C12: when a step of the record lacks one of its fields, the page, the
\* Word document and the Markdown report are all produced without an
\* exception, and both reports hold "N/A" in the place of the missing value.
C12_MissingFieldPlaceholder ==
    (pc \in {"done", "crashed"} /\ reply.kind = "drop" /\ StepFieldMissing(reply.rec)
       /\ analysis = reply.rec) =>
        /\ pc = "done"
        /\ \E i \in 1..Len(Tables[1].rows), c \in 1..5 : Tables[1].rows[i][c] = <<"N/A">>
        /\ \E i \in 1..Len(report_md) : report_md[i] = "N/A"

\* stage st has run
Ran(st) == \E i \in 1..Len(stages) : stages[i] = st

\* what the re-parse of stage S1 and the parse of stage S3 give on this text
S1Result == Loads(RepairUnterminated(cleaned_response, e.line))
S3Result ==
    IF RegexMatches(cleaned_response) THEN Loads(RegexGroup(cleaned_response))
    ELSE Err("no match", 0)

\* the page shows the message of error r of a parse of text s, with its line
\* when r is a JSONDecodeError
ErrorShown(r, s) ==
    \E i \in 1..Len(ui) :
        ui[i].msg = r.msg /\ (IsDecodeError(r) => ui[i].n = LineNo(s, r.pos))

\* C13: once the model has returned text, the raw reply is shown in the
\* sidebar, and the error of every stage that failed is shown: that of the
\* first parse, that of the re-parse of S1 and that of the parse of S3.
C13_DiagnosticsKept ==
    /\ (pc \notin {"invoke", "check"} /\ Truthy(analysis_result)) =>
          \E i \in 1..Len(ui) :
              ui[i].tag = "Debug Raw Response" /\ ui[i].text = reply.text
    /\ (Ran("S0") /\ ~Loads(cleaned_response).ok) =>
          ErrorShown(Loads(cleaned_response), cleaned_response)
    /\ (Ran("S1") /\ ~S1Result.ok) =>
          ErrorShown(S1Result, RepairUnterminated(cleaned_response, e.line))
    /\ (Ran("S3") /\ RegexMatches(cleaned_response) /\ ~S3Result.ok) =>
          ErrorShown(S3Result, RegexGroup(cleaned_response))

\* the orders in which the stages can have run so far
StageOrders ==
    { <<>>, <<"S0">>, <<"S0", "S1">>, <<"S0", "S3">>, <<"S0", "S1", "S3">>,
      <<"S0", "S3", "S5">>, <<"S0", "S1", "S3", "S5">> }

\* C14: the stages run in the order strict parse, string repair, extraction,
\* field salvage; a stage is entered only when every earlier stage has failed
\* on the text (the string repair being tried only for an unterminated
\* string); a stage that parses the text ends the pipeline with the value it
\* parsed; and the field salvage is never entered while the strict parse, the
\* string repair or the extraction parses the text.
C14_StageOrder ==
    /\ stages \in StageOrders
    /\ Ran("S1") => ~Loads(cleaned_response).ok /\ e.msg = "Unterminated string starting at"
    /\ Ran("S3") =>
          /\ ~Loads(cleaned_response).ok
          /\ IF e.msg = "Unterminated string starting at"
             THEN Ran("S1") /\ ~S1Result.ok
             ELSE ~Ran("S1")
    /\ Ran("S5") => ~S3Result.ok
    /\ (Ran("S0") /\ Loads(cleaned_response).ok) =>
          stages = <<"S0">> /\ analysis = Loads(cleaned_response).v
    /\ (Ran("S1") /\ S1Result.ok) =>
          stages = <<"S0", "S1">> /\ analysis = S1Result.v
    /\ (Ran("S3") /\ S3Result.ok) =>
          stages \in {<<"S0", "S3">>, <<"S0", "S1", "S3">>} /\ analysis = S3Result.v
    /\ (Ran("S5") /\ pc # "S5") => analysis = MinimalJson(cleaned_response)

C14_Witness ==
    /\ pc = "ui" /\ stages = <<"S0", "S1", "S3", "S5">>
    /\ analysis = MinimalJson(cleaned_response)
    /\ reply.kind = "quote"

\* the texts that the repair of the claim can give for text s: the quotes of
\* the line of the error are counted up to the column of the error (with or
\* without the symbol at that column), and an odd count puts one quote at
\* that column (before or after the symbol there)
ClaimedRepairs(s) ==
    LET pos == Loads(s).pos
        b == LineStart(s, LineNo(s, pos))
    IN {IF CountIn(SubSeq(s, b, last), last - b + 1, DQ) % 2 = 1 THEN InsertAt(s, at, DQ) ELSE s :
           last \in {pos - 1, pos}, at \in {pos - 1, pos}}

\* C15: the text that stage S1 parses again is the text of the reply with one
\* quote put at the column of the error when the number of quotes up to that
\* column is odd, and the text as it is otherwise.
C15_QuoteAtErrorColumn ==
    Ran("S1") => RepairUnterminated(cleaned_response, e.line) \in ClaimedRepairs(cleaned_response)

\* C16: for a reply made of a serialised record with other text around it,
\* with or without braces in that text, the extraction parses the span of
\* the record alone and the analysis is that record.
C16_ExtractionReturnsObject ==
    (pc = "ui" /\ reply.kind = "record" /\ reply.wrapper \in {"prose", "braces"}) =>
        /\ Ran("S3")
        /\ analysis = reply.rec

\* the reports of the retries on the page, in order
RetryReports == SelectSeq(ui, LAMBDA x : x.w = "warning" /\ x.tag = "Retry")
WaitReports == SelectSeq(ui, LAMBDA x : x.w = "info" /\ x.tag = "Waiting")

\* C17: every wait and every call after the first one is preceded by a
\* report of the retry: the j-th report gives the retry count j (1..3) and
\* the delay that the j-th wait then takes.
C17_RetriesReported ==
    /\ Len(RetryReports) = Len(WaitReports)
    /\ \A j \in 1..Len(RetryReports) : RetryReports[j].n = j /\ j \in 1..max_retries
    /\ Len(slept) <= Len(WaitReports)
    /\ \A j \in 1..Len(slept) : WaitReports[j].n = slept[j]
    /\ calls <= Len(RetryReports) + 1
    /\ pc = "sleep" =>
          /\ Len(WaitReports) = Len(slept) + 1
          /\ WaitReports[Len(WaitReports)].n = retry_delay

C17_Witness ==
    /\ pc = "invoke" /\ Len(slept) = 3 /\ slept[3] = 20
    /\ WaitReports[3].n = 20 /\ RetryReports[3].n = 3

\* the clean-up has run on the text of the reply
Cleaned == Truthy(analysis_result) /\ (pc = "S0" \/ Ran("S0"))

\* the stripped text is wrapped in a code fence tagged as JSON
Wrapped(a) ==
    /\ Len(a) >= Len(FenceOpen) + Len(FenceClose)
    /\ StartsWith(a, FenceOpen) /\ EndsWith(a, FenceClose)

\* C18 as stated: the text that is parsed is the text between the markers
\* when the stripped reply is wrapped in a fence tagged as JSON, and the
\* stripped reply otherwise.
C18_FenceOnlyWhenWrapped ==
    Cleaned =>
        LET a == Strip(reply.text)
        IN cleaned_response =
              IF Wrapped(a) THEN SubSeq(a, Len(FenceOpen) + 1, Len(a) - Len(FenceClose)) ELSE a

\* C18, amended: the stripped reply is the text that is parsed with the
\* opening marker before it exactly when the stripped reply starts with that
\* marker, and with the closing marker after it exactly when what follows
\* the opening marker ends with the closing one; each marker is removed
\* whether or not the other one is there.
C18_MarkersRemovedSeparately ==
    Cleaned =>
        LET a == Strip(reply.text)
            pre == IF StartsWith(a, FenceOpen) THEN FenceOpen ELSE <<>>
            post == IF EndsWith(SubSeq(a, Len(pre) + 1, Len(a)), FenceClose)
                    THEN FenceClose ELSE <<>>
        IN a = pre \o cleaned_response \o post

C18_Witness ==
    /\ pc = "S0" /\ reply.kind = "record" /\ reply.wrapper = "fence_open"
    /\ FenceOpen \o cleaned_response = reply.text

\* C19: a reply that is delivered but cannot be decoded, or that has no text
\* in its first content block, is handled as a failed call: every failed call
\* of either kind raises the retry count by one and is followed by a report,
\* a wait and a new call, and generate_response gives up with no text only
\* after 4 failed calls; a reply whose text is empty is returned at once, is
\* followed by no wait and no call, and ends the analysis with no record.
C19_MalformedReplyRetried ==
    /\ calls = retry_count + (IF pc = "except" \/ reply.kind # "none" THEN 1 ELSE 0)
    /\ \A j \in 1..Len(RetryReports) : RetryReports[j].msg \in Failures
    /\ (pc = "sleep" /\ exc \in Malformed) =>
          /\ retry_count \in 1..max_retries
          /\ RetryReports[retry_count].msg = exc
          /\ Len(slept) = retry_count - 1
    /\ (pc = "invoke" /\ exc \in Malformed) => Len(slept) = retry_count /\ calls = retry_count
    /\ (InvokerDone /\ calls > 0 /\ reply.kind = "none") =>
          /\ calls = 4 /\ retry_count = 4 /\ Len(slept) = 3
          /\ analysis_result = None
    /\ (reply.kind # "none" /\ reply.text = <<>>) =>
          /\ Len(slept) = retry_count /\ calls = retry_count + 1
          /\ stages = <<>> /\ analysis = None
          /\ pc \in {"check", "ui", "done"}

C19_Witness ==
    /\ pc = "check" /\ reply.kind = "none" /\ calls = 4 /\ analysis_result = None
    /\ exc = "JSONDecodeError"
    /\ \A j \in 1..3 : RetryReports[j].msg = "KeyError"

====
